---- MODULE Spec2Model ----
(***************************************************************************)
(* State-machine model of the recursive copy engine (Directory / File      *)
(* state machines, part_001 and the second half of vfs/forest.js) and of  *)
(* the Forest registry with its two debounced schedulers (first half of    *)
(* vfs/forest.js).                                                         *)
(***************************************************************************)
EXTENDS Integers, Sequences, FiniteSets, TLC

(***************************************************************************)
(* Bounds of the model.                                                    *)
(***************************************************************************)
\* number of file entries in the source root directory
NFiles == 2

\* number of setPolicy() decisions injected during one copy
MaxSetPolicy == 2

(***************************************************************************)
(* The source tree that is copied.  A node is a record: idx = 0 is the     *)
(* directory itself, idx = i > 0 is the i-th file entry of that directory. *)
(***************************************************************************)
RootDir == "root"

Dirs == {"root", "a", "b"}

SubdirsOf(d) == IF d = "root" THEN <<"a", "b">> ELSE <<>>

HasParent(d) == \E p \in Dirs : \E i \in 1..Len(SubdirsOf(p)) : SubdirsOf(p)[i] = d

ParentOf(d) == CHOOSE p \in Dirs : \E i \in 1..Len(SubdirsOf(p)) : SubdirsOf(p)[i] = d

DirNode(d) == [dir |-> d, idx |-> 0]

FileNode(d, i) == [dir |-> d, idx |-> i]

\* number of file entries of source directory d
FilesIn(d) == IF d = "b" THEN 1 ELSE NFiles

Files == UNION {{FileNode(d, i) : i \in 1..FilesIn(d)} : d \in Dirs}

Nodes == Files \cup {DirNode(d) : d \in Dirs}

IsFile(n) == n.idx > 0

IsDir(n) == n.idx = 0

\* the listing the source-listing collaborator returns for d: xstats of type
\* 'file' and of type 'directory'
Listing(d) ==
  [i \in 1..FilesIn(d) |-> FileNode(d, i)] \o
  [j \in 1..Len(SubdirsOf(d)) |-> DirNode(SubdirsOf(d)[j])]

DirStates == {"Pending", "Making", "Conflict", "Reading", "Read", "Failed", "Finished"}

FileStates == {"Pending", "Working", "Conflict", "Failed", "Finished"}

Policies == {"skip", "rename"}

NoPolicy == <<"null", "null">>

\* destination ids the directory-create collaborator may assign (xstat.uuid)
DstIds == {1, 2}

\* process-wide default directory policy pair (ctx.policies.dir)
CtxDirPolicy == <<"null", "null">>

\* process-wide default file policy (ctx.policies.file)
CtxFilePolicy == "null"

VARIABLES
  dstate,     \* dir.state: the state object a Directory currently holds
  dstUUID,    \* dir.dstUUID, 0 while unset
  policy,     \* dir.policy, the 2-slot override
  callPolicy, \* the `policy` closure variable of a Making state with a call in flight
  conflict,   \* err and policy fields of a Directory's Conflict state object
  fstats,     \* dir.fstats: file entries not yet spawned
  dstats,     \* dir.dstats: subdirectory entries not yet spawned
  children,   \* dir.children
  fstate,     \* file.state: the state object the File holds in its field
  flive,      \* the File state object entered most recently
  fpolicy,    \* file.policy override
  fcall,      \* the `policy` variable of the File's most recent Working.enter
  dirB,       \* ctx per-state directory buckets
  fileB,      \* ctx per-state file buckets
  emitted,    \* per node, the 'error' / 'finish' events it has emitted
  destroyed,  \* nodes on which destroy() has been called
  thrown,     \* exception raised by the most recent retry()/setPolicy() call
  nSetPolicy, \* setPolicy() calls made so far
  last        \* the operation performed by the most recent step

cvars == <<dstate, dstUUID, policy, callPolicy, conflict, fstats, dstats, children,
           fstate, flive, fpolicy, fcall, dirB, fileB, emitted, destroyed, thrown,
           nSetPolicy, last>>

\* the copy state as one record, so that handlers are functions of it
Cur ==
  [dstate |-> dstate, dstUUID |-> dstUUID, policy |-> policy, callPolicy |-> callPolicy,
   conflict |-> conflict, fstats |-> fstats, dstats |-> dstats, children |-> children,
   fstate |-> fstate, flive |-> flive, fpolicy |-> fpolicy, fcall |-> fcall,
   dirB |-> dirB,
   fileB |-> fileB, emitted |-> emitted, destroyed |-> destroyed, thrown |-> "none"]

Apply(s) ==
  /\ dstate' = s.dstate
  /\ dstUUID' = s.dstUUID
  /\ policy' = s.policy
  /\ callPolicy' = s.callPolicy
  /\ conflict' = s.conflict
  /\ fstats' = s.fstats
  /\ dstats' = s.dstats
  /\ children' = s.children
  /\ fstate' = s.fstate
  /\ flive' = s.flive
  /\ fpolicy' = s.fpolicy
  /\ fcall' = s.fcall
  /\ dirB' = s.dirB
  /\ fileB' = s.fileB
  /\ emitted' = s.emitted
  /\ destroyed' = s.destroyed
  /\ thrown' = s.thrown

\* the copy state is s
Is(s) ==
  /\ dstate = s.dstate
  /\ dstUUID = s.dstUUID
  /\ policy = s.policy
  /\ callPolicy = s.callPolicy
  /\ conflict = s.conflict
  /\ fstats = s.fstats
  /\ dstats = s.dstats
  /\ children = s.children
  /\ fstate = s.fstate
  /\ flive = s.flive
  /\ fpolicy = s.fpolicy
  /\ fcall = s.fcall
  /\ dirB = s.dirB
  /\ fileB = s.fileB
  /\ emitted = s.emitted
  /\ destroyed = s.destroyed
  /\ thrown = s.thrown

NoConflict == [err |-> "none", policy |-> NoPolicy]

Blank ==
  [dstate |-> [d \in Dirs |-> "None"], dstUUID |-> [d \in Dirs |-> 0],
   policy |-> [d \in Dirs |-> NoPolicy], callPolicy |-> [d \in Dirs |-> NoPolicy],
   conflict |-> [d \in Dirs |-> NoConflict],
   fstats |-> [d \in Dirs |-> <<>>], dstats |-> [d \in Dirs |-> <<>>],
   children |-> [d \in Dirs |-> <<>>],
   fstate |-> [f \in Files |-> "None"], flive |-> [f \in Files |-> "None"],
   fpolicy |-> [f \in Files |-> "null"], fcall |-> [f \in Files |-> "null"],
   dirB |-> [b \in DirStates |-> {}], fileB |-> [b \in FileStates |-> {}],
   emitted |-> [n \in Nodes |-> <<>>], destroyed |-> {}, thrown |-> "none"]

(***************************************************************************)
(* ctx buckets and the Node base class.                                    *)
(***************************************************************************)
DirIndex(s, b, d) == [s EXCEPT !.dirB[b] = @ \cup {d}]

DirUnindex(s, b, d) == [s EXCEPT !.dirB[b] = @ \ {d}]

FileIndex(s, b, f) == [s EXCEPT !.fileB[b] = @ \cup {f}]

FileUnindex(s, b, f) == [s EXCEPT !.fileB[b] = @ \ {f}]

NodeParent(n) == IF IsFile(n) THEN n.dir ELSE ParentOf(n.dir)

NodeHasParent(n) == IsFile(n) \/ HasParent(n.dir)

\* Node constructor: attach to the parent's children list
NodeAttach(s, n) ==
  IF NodeHasParent(n)
  THEN [s EXCEPT !.children[NodeParent(n)] = Append(@, n)]
  ELSE s

\* Node.destroy(detach): leave the parent's children list when detach is set
NodeDestroy(s, n, detach) ==
  IF detach /\ NodeHasParent(n)
  THEN [s EXCEPT !.children[NodeParent(n)] = SelectSeq(@, LAMBDA c : c # n)]
  ELSE s

(***************************************************************************)
(* File state machine (vfs/forest.js 247-398).                             *)
(***************************************************************************)
\* the bucket a File state's exit() unregisters from
FileExitBucket(st) == IF st = "Failed" THEN "Working" ELSE st

FileExit(s, f, st) == FileUnindex(s, FileExitBucket(st), f)

\* State constructor: this.file = file; this.enter().  The value of file.state
\* afterwards, given its value `field` before: the constructor does not assign it
FileStateField(field, st) == field

Or2(a, b) == IF a # "null" THEN a ELSE b

FileGetPolicy(s, f) == Or2(s.fpolicy[f], CtxFilePolicy)

RECURSIVE ReadNext(_, _)
RECURSIVE Emit(_, _, _, _)
RECURSIVE DestroyNode(_, _, _)
RECURSIVE DestroyAll(_, _, _)
RECURSIVE NewFinishedDir(_, _)

\* new S(file) for the states whose enter() only registers the file
FileNewPlain(s, f, st) ==
  LET s1 == FileIndex([s EXCEPT !.flive[f] = st, !.fstate[f] = FileStateField(@, st)],
                      st, f)
  IN  IF st = "Working" THEN [s1 EXCEPT !.fcall[f] = FileGetPolicy(s1, f)] ELSE s1

FileNewFailed(s, f, err) == Emit(FileNewPlain(s, f, "Failed"), f, "error", err)

FileNewFinished(s, f) == Emit(FileNewPlain(s, f, "Finished"), f, "finish", "none")

\* File constructor
FileCtor(s, f) ==
  LET s1 == NodeAttach(s, f)
      s2 == FileIndex([s1 EXCEPT !.flive[f] = "Pending"], "Pending", f)
  IN  [s2 EXCEPT !.fstate[f] = "Pending"]

\* the callback of Working.enter going on to Finished after handling the error
WorkingDoneFallsThrough(s, f, out) ==
  LET s1 == FileExit(s, f, "Working")
      s2 == CASE out = "ok" -> s1
              [] out = "ECONFLICT" -> FileNewPlain(s1, f, "Conflict")
              [] OTHER -> FileNewFailed(s1, f, out)
  IN  FileNewFinished(FileExit(s2, f, "Working"), f)

\* the callback of Working.enter testing err.code where the tag is err.xcode
WorkingDoneWrongTag(s, f, out) ==
  LET s1 == FileExit(s, f, "Working")
  IN  IF out = "ok" THEN FileNewFinished(s1, f) ELSE FileNewFailed(s1, f, out)

\* the callback of Working.enter
WorkingDone(s, f, out) ==
  LET s1 == FileExit(s, f, "Working")
  IN  CASE out = "ok" -> FileNewFinished(s1, f)
        [] out = "ECONFLICT" -> FileNewPlain(s1, f, "Conflict")
        [] OTHER -> FileNewFailed(s1, f, out)

\* File.setState(NextState): this.state.setState(NextState)
FileSetState(s, f, st) == FileNewPlain(FileExit(s, f, s.fstate[f]), f, st)

\* File.destroy(detach)
FileDestroy(s, f, detach) ==
  LET s1 == FileExit(s, f, s.fstate[f])
  IN  NodeDestroy([s1 EXCEPT !.destroyed = @ \cup {f}], f, detach)

\* File.view(): the state name is this.state.constructor.name
FileView(s, f) == [type |-> "directory", state |-> s.fstate[f]]

\* File.setPolicy(policy)
FileSetPolicy(s, f, p) == [s EXCEPT !.fpolicy[f] = p]

\* resolve() of the state object st: Conflict.resolve reads this.policy and
\* this.dir, neither of which a File state has, and throws; the other states
\* inherit the empty State.resolve
StateResolve(s, f, st) ==
  IF st = "Conflict" THEN [s EXCEPT !.thrown = "TypeError"] ELSE s

\* File.resolve(): this.state.resolve()
FileResolve(s, f) == StateResolve(s, f, s.fstate[f])

(***************************************************************************)
(* Directory state machine (part_001).                                     *)
(***************************************************************************)
DirExit(s, d, st) == DirUnindex(s, st, d)

DirGetPolicy(s, d) ==
  <<Or2(s.policy[d][1], CtxDirPolicy[1]), Or2(s.policy[d][2], CtxDirPolicy[2])>>

NewPendingDir(s, d) == DirIndex([s EXCEPT !.dstate[d] = "Pending"], "Pending", d)

NewMakingDir(s, d) ==
  LET s1 == DirIndex([s EXCEPT !.dstate[d] = "Making"], "Making", d)
  IN  [s1 EXCEPT !.callPolicy[d] = DirGetPolicy(s1, d)]

NewConflictDir(s, d, err, pol) ==
  DirIndex([s EXCEPT !.dstate[d] = "Conflict",
                     !.conflict[d] = [err |-> err, policy |-> pol]], "Conflict", d)

NewReadingDir(s, d) == DirIndex([s EXCEPT !.dstate[d] = "Reading"], "Reading", d)

\* Read.enter filtering both queues by the type 'directory'
NewReadDirNoFiles(s, d, xstats) ==
  LET s1 == DirIndex([s EXCEPT !.dstate[d] = "Read"], "Read", d)
      s2 == [s1 EXCEPT !.dstats[d] = SelectSeq(xstats, IsDir), !.fstats[d] = <<>>]
  IN  ReadNext(s2, d)

NewReadDir(s, d, xstats) ==
  LET s1 == DirIndex([s EXCEPT !.dstate[d] = "Read"], "Read", d)
      s2 == [s1 EXCEPT !.dstats[d] = SelectSeq(xstats, IsDir),
                       !.fstats[d] = SelectSeq(xstats, IsFile)]
  IN  ReadNext(s2, d)

NewFailedDir(s, d, err) ==
  LET s1 == DirIndex([s EXCEPT !.dstate[d] = "Failed"], "Failed", d)
      s2 == DestroyAll(s1, s1.children[d], 1)
  IN  Emit(s2, DirNode(d), "error", err)

NewFinishedDir(s, d) ==
  Emit(DirIndex([s EXCEPT !.dstate[d] = "Finished"], "Finished", d),
       DirNode(d), "finish", "none")

\* Directory constructor
DirCtor(s, d, dst, xstats) ==
  LET s1 == [NodeAttach(s, DirNode(d)) EXCEPT !.children[d] = <<>>]
  IN  IF dst # 0
      THEN NewReadDir([s1 EXCEPT !.dstUUID[d] = dst], d, xstats)
      ELSE NewPendingDir(s1, d)

\* Read.next finishing without looking at the children list
ReadNextUnchecked(s, d) ==
  IF Len(s.fstats[d]) > 0
  THEN FileCtor([s EXCEPT !.fstats[d] = Tail(@)], Head(s.fstats[d]))
  ELSE IF Len(s.dstats[d]) > 0
  THEN DirCtor([s EXCEPT !.dstats[d] = Tail(@)], Head(s.dstats[d]).dir, 0, <<>>)
  ELSE NewFinishedDir(DirExit(s, d, "Read"), d)

\* Read.next without the return after constructing a File child
ReadNextNoReturn(s, d) ==
  IF Len(s.fstats[d]) > 0
  THEN ReadNext(FileCtor([s EXCEPT !.fstats[d] = Tail(@)], Head(s.fstats[d])), d)
  ELSE IF Len(s.dstats[d]) > 0
  THEN DirCtor([s EXCEPT !.dstats[d] = Tail(@)], Head(s.dstats[d]).dir, 0, <<>>)
  ELSE IF Len(s.children[d]) = 0
  THEN NewFinishedDir(DirExit(s, d, "Read"), d)
  ELSE s

\* Read.next serving the subdirectory queue before the file queue
ReadNextDirsFirst(s, d) ==
  IF Len(s.dstats[d]) > 0
  THEN DirCtor([s EXCEPT !.dstats[d] = Tail(@)], Head(s.dstats[d]).dir, 0, <<>>)
  ELSE IF Len(s.fstats[d]) > 0
  THEN FileCtor([s EXCEPT !.fstats[d] = Tail(@)], Head(s.fstats[d]))
  ELSE IF Len(s.children[d]) = 0
  THEN NewFinishedDir(DirExit(s, d, "Read"), d)
  ELSE s

\* Read.next
ReadNext(s, d) ==
  IF Len(s.fstats[d]) > 0
  THEN FileCtor([s EXCEPT !.fstats[d] = Tail(@)], Head(s.fstats[d]))
  ELSE IF Len(s.dstats[d]) > 0
  THEN DirCtor([s EXCEPT !.dstats[d] = Tail(@)], Head(s.dstats[d]).dir, 0, <<>>)
  ELSE IF Len(s.children[d]) = 0
  THEN NewFinishedDir(DirExit(s, d, "Read"), d)
  ELSE s

\* Directory.view(): the state name is this.state.constructor.name, and the State
\* constructor has stored the state object in dir.state
DirView(s, d) == [type |-> "directory", state |-> s.dstate[d]]

\* Directory.destroy(detach)
DirDestroy(s, d, detach) ==
  LET s1 == DestroyAll(s, s.children[d], 1)
      s2 == DirExit(s1, d, s1.dstate[d])
  IN  NodeDestroy([s2 EXCEPT !.destroyed = @ \cup {DirNode(d)}], DirNode(d), detach)

DestroyNode(s, n, detach) ==
  IF IsFile(n) THEN FileDestroy(s, n, detach) ELSE DirDestroy(s, n.dir, detach)

\* children.forEach(c => c.destroy()) from position i on
DestroyAll(s, cs, i) ==
  IF i > Len(cs) THEN s ELSE DestroyAll(DestroyNode(s, cs[i], FALSE), cs, i + 1)

\* node.emit(ev, err) and the listeners Read.next registered on the child
Emit(s, n, ev, err) ==
  LET s1 == [s EXCEPT !.emitted[n] = Append(@, <<ev, err>>)]
  IN  IF ~NodeHasParent(n) THEN s1
      ELSE IF ev = "error" THEN ReadNext(s1, NodeParent(n))
      ELSE ReadNext(DestroyNode(s1, n, TRUE), NodeParent(n))

\* the callback of Making.enter taking every error for a failure
MakingDoneNoConflict(s, d, out, uuid) ==
  LET s0 == [s EXCEPT !.callPolicy[d] = NoPolicy]
  IN  IF out = "ok"
      THEN NewReadingDir(DirExit([s0 EXCEPT !.dstUUID[d] = uuid], d, "Making"), d)
      ELSE NewFailedDir(DirExit(s0, d, "Making"), d, out)

\* the callback of Making.enter
MakingDone(s, d, out, uuid) ==
  LET pol == s.callPolicy[d]
      s0 == [s EXCEPT !.callPolicy[d] = NoPolicy]
  IN  CASE out = "EEXIST" -> NewConflictDir(DirExit(s0, d, "Making"), d, out, pol)
        [] out = "ok" -> NewReadingDir(DirExit([s0 EXCEPT !.dstUUID[d] = uuid], d, "Making"), d)
        [] OTHER -> NewFailedDir(DirExit(s0, d, "Making"), d, out)

\* the callback of Reading.enter stamping the Directory with its parent's id
ReadingDoneRestamps(s, d, out) ==
  IF out = "ok"
  THEN NewReadDir(DirExit([s EXCEPT !.dstUUID[d] = s.dstUUID[ParentOf(d)]], d, "Reading"),
                  d, Listing(d))
  ELSE NewFailedDir(DirExit(s, d, "Reading"), d, out)

\* the callback of Reading.enter
ReadingDone(s, d, out) ==
  IF out = "ok"
  THEN NewReadDir(DirExit(s, d, "Reading"), d, Listing(d))
  ELSE NewFailedDir(DirExit(s, d, "Reading"), d, out)

\* Conflict.retry; every other state inherits the empty State.retry
StateRetry(s, d) ==
  IF s.dstate[d] = "Conflict"
  THEN NewMakingDir([DirExit(s, d, "Conflict") EXCEPT !.conflict[d] = NoConflict], d)
  ELSE s

RECURSIVE DirRetry(_, _)
RECURSIVE RetryAll(_, _, _)

\* children.forEach(c => c.retry()): a File has no retry method, the call throws
RetryAll(s, cs, i) ==
  IF i > Len(cs) \/ s.thrown # "none" THEN s
  ELSE IF IsFile(cs[i]) THEN [s EXCEPT !.thrown = "TypeError"]
  ELSE RetryAll(DirRetry(s, cs[i].dir), cs, i + 1)

\* Directory.retry
DirRetry(s, d) ==
  LET s1 == RetryAll(s, s.children[d], 1)
  IN  IF s1.thrown # "none" THEN s1 ELSE StateRetry(s1, d)

\* Directory.setPolicy(type, policy)
DirSetPolicy(s, d, type, p) ==
  LET k == IF type = "same" THEN 1 ELSE 2
  IN  DirRetry([s EXCEPT !.policy[d][k] = p], d)

(***************************************************************************)
(* The copy operation as a state machine.                                  *)
(***************************************************************************)
\* the root Directory is constructed with its destination id and listing
CopyInit ==
  /\ Is(DirCtor(Blank, RootDir, 1, Listing(RootDir)))
  /\ nSetPolicy = 0
  /\ last = <<"init">>

\* the copy context schedules a pending Directory: dir.setState(Making)
SchedDir(d) ==
  /\ d \in dirB["Pending"]
  /\ Apply(NewMakingDir(DirExit(Cur, d, dstate[d]), d))
  /\ last' = <<"schedDir", d>>
  /\ UNCHANGED nSetPolicy

\* the copy context schedules a pending File: file.setState(Working)
SchedFile(f) ==
  /\ f \in fileB["Pending"]
  /\ Apply(FileSetState(Cur, f, "Working"))
  /\ last' = <<"schedFile", f>>
  /\ UNCHANGED nSetPolicy

MkdircDone(d, out, uuid) ==
  /\ dstate[d] = "Making"
  /\ Apply(MakingDone(Cur, d, out, uuid))
  /\ last' = <<"mkdirc", d, out, IF out = "ok" THEN uuid ELSE 0>>
  /\ UNCHANGED nSetPolicy

ReaddirDone(d, out) ==
  /\ dstate[d] = "Reading"
  /\ Apply(ReadingDone(Cur, d, out))
  /\ last' = <<"readdir", d, out>>
  /\ UNCHANGED nSetPolicy

CpFileDone(f, out) ==
  /\ flive[f] = "Working"
  /\ Apply(WorkingDone(Cur, f, out))
  /\ last' = <<"cpFile", f, out>>
  /\ UNCHANGED nSetPolicy

Retry(d) ==
  /\ dstate[d] # "None"
  /\ Apply(DirRetry(Cur, d))
  /\ last' = <<"retry", d>>
  /\ UNCHANGED nSetPolicy

\* a conflict decision injected into a parked Directory: dir.setPolicy(type, p)
SetPolicy(d, type, p) ==
  /\ dstate[d] = "Conflict"
  /\ nSetPolicy < MaxSetPolicy
  /\ nSetPolicy' = nSetPolicy + 1
  /\ Apply(DirSetPolicy(Cur, d, type, p))
  /\ last' = <<"setPolicy", d, type, p>>

\* a conflict decision injected into a parked File: file.setPolicy(p)
SetFilePolicy(f, p) ==
  /\ flive[f] = "Conflict"
  /\ nSetPolicy < MaxSetPolicy
  /\ nSetPolicy' = nSetPolicy + 1
  /\ Apply(FileSetPolicy(Cur, f, p))
  /\ last' = <<"setFilePolicy", f, p>>

\* the parked File is asked to go on: file.resolve()
Resolve(f) ==
  /\ flive[f] = "Conflict"
  /\ Apply(FileResolve(Cur, f))
  /\ last' = <<"resolve", f>>
  /\ UNCHANGED nSetPolicy

\* cancellation of the copy: root.destroy()
Destroy ==
  /\ Apply(DirDestroy(Cur, RootDir, FALSE))
  /\ last' = <<"destroy">>
  /\ UNCHANGED nSetPolicy

(***************************************************************************)
(* Forest (vfs/forest.js 41-240): the registry of live vfs Directory       *)
(* objects, its lifecycle buckets and its two debounced schedulers.        *)
(***************************************************************************)
\* number of vfs directories that may come to exist
NVDirs == 7

\* number of vfs files that may come to exist
NVFiles == 3

\* number of re-probe requests made on directories already read
MaxReprobe == 1

\* number of vfs directories destroyed in a run
MaxVDestroy == 1

\* number of vfs directories in a run whose reads discover files
NVHashDirs == 2

\* ceiling of concurrently reading directories
DirReadCeiling == 6

\* ceiling of concurrently hashing files
FileHashCeiling == 2

VDirs == 1..NVDirs

VFiles == 1..NVFiles

VARIABLES
  roots,             \* forest.roots: the drive ids with a root Directory
  uuidMap,           \* forest.uuidMap: the uuids with an indexed Directory
  initDirs,          \* forest.initDirs, in insertion order
  pendingDirs,       \* forest.pendingDirs
  readingDirs,       \* forest.readingDirs
  hashlessFiles,     \* forest.hashlessFiles, in insertion order
  hashingFiles,      \* forest.hashingFiles
  hashFailedFiles,   \* forest.hashFailedFiles
  hashedFiles,       \* the files registered in mediaMap
  dirReadScheduled,  \* forest.dirReadScheduled
  fileHashScheduled, \* forest.fileHashScheduled
  tickQueue,         \* the callbacks handed to process.nextTick and not yet run
  vdir,              \* the state of every vfs Directory object
  stale,             \* the state of the root Directory object that createRoot replaced
  vfile,             \* the state of every vfs File object
  nReprobe,          \* re-probe requests made so far
  workload,          \* what the run meets: directories, files, directories gone, a root again
  armed,             \* a directory entered a bucket since the last settle signal
  hung,              \* a scheduling pass is spinning in its loop
  job                \* what the job run by the most recent step did

fvars == <<roots, uuidMap, initDirs, pendingDirs, readingDirs, hashlessFiles,
           hashingFiles, hashFailedFiles, hashedFiles, dirReadScheduled,
           fileHashScheduled, tickQueue, vdir, stale, vfile, nReprobe, workload, armed,
           hung, job>>

\* the multipart Party (part_002) and its Jobs
VARIABLES
  jstate,     \* job.state of every Job, "None" before the Job is constructed
  jto,        \* job.args.toName, "null" while job.args is unset
  pred,       \* job.predecessor, 0 while undefined
  perror,     \* party.error
  pended,     \* party.ended
  pfinished,  \* party.finished
  ptick,      \* the StateEntered emissions handed to process.nextTick, by Job
  pemitted,   \* the events the Party has emitted
  pthrown,    \* the exception the most recent handler ended with
  plast       \* the handler run by the most recent step

pvars == <<jstate, jto, pred, perror, pended, pfinished, ptick, pemitted, pthrown, plast>>

\* one directory probe (fruitmix/file/probe.js)
VARIABLES
  bpos,       \* the call of the probe that is in flight: timer, xstat1, readdir, ...
  baborted,   \* the closure variable aborted
  bagain,     \* the closure variable again
  bcount,     \* the closure variable count of readProps
  bflight,    \* the readXstat calls of readProps still in flight
  bcalls,     \* what the callback of the probe was invoked with, in order
  bthrown,    \* the exception the most recent handler ended with
  bscope,     \* the scope binds the free names mtime, ENOTDIR, EUUID, ETIMESTAMP
  blast       \* the handler run by the most recent step

bvars == <<bpos, baborted, bagain, bcount, bflight, bcalls, bthrown, bscope, blast>>

\* one cloneFile call (part_000)
VARIABLES
  kpos,       \* the call of cloneFile that is in flight: xstat, clone, lstat, force
  kargs,      \* the arguments fileUUID and preserve
  kxstat,     \* what readXstat reported for the source
  kmtime,     \* the modification time fs.lstat reported after cloning, 0 before
  ktmp,       \* the file at tmpPath: none, present or removed
  kopt,       \* the opt object handed to forceXstat
  kresult,    \* what the callback was invoked with
  klast       \* the handler run by the most recent step

kvars == <<kpos, kargs, kxstat, kmtime, ktmp, kopt, kresult, klast>>

\* the state outside the copy operation and the Forest
xvars == <<pvars, bvars, kvars>>

vars == <<cvars, fvars, xvars>>

\* the record of a job that has done nothing yet
NewJob(op) ==
  [op |-> op, dirReqs |-> 0, hashReqs |-> 0, signals |-> 0, reported |-> "none"]

\* the Forest state as one record, at the start of job op
FCur(op) ==
  [roots |-> roots, uuidMap |-> uuidMap, initDirs |-> initDirs,
   pendingDirs |-> pendingDirs, readingDirs |-> readingDirs,
   hashlessFiles |-> hashlessFiles, hashingFiles |-> hashingFiles,
   hashFailedFiles |-> hashFailedFiles, hashedFiles |-> hashedFiles,
   dirReadScheduled |-> dirReadScheduled, fileHashScheduled |-> fileHashScheduled,
   tickQueue |-> tickQueue, vdir |-> vdir, stale |-> stale, vfile |-> vfile,
   nReprobe |-> nReprobe,
   armed |-> armed, hung |-> hung, job |-> NewJob(op)]

FApply(s) ==
  /\ roots' = s.roots
  /\ uuidMap' = s.uuidMap
  /\ initDirs' = s.initDirs
  /\ pendingDirs' = s.pendingDirs
  /\ readingDirs' = s.readingDirs
  /\ hashlessFiles' = s.hashlessFiles
  /\ hashingFiles' = s.hashingFiles
  /\ hashFailedFiles' = s.hashFailedFiles
  /\ hashedFiles' = s.hashedFiles
  /\ dirReadScheduled' = s.dirReadScheduled
  /\ fileHashScheduled' = s.fileHashScheduled
  /\ tickQueue' = s.tickQueue
  /\ vdir' = s.vdir
  /\ stale' = s.stale
  /\ vfile' = s.vfile
  /\ nReprobe' = s.nReprobe
  /\ UNCHANGED workload
  /\ armed' = s.armed
  /\ hung' = s.hung
  /\ job' = s.job
  /\ UNCHANGED <<cvars, xvars>>

\* Forest constructor
ForestInit ==
  /\ roots = {}
  /\ uuidMap = {}
  /\ initDirs = <<>>
  /\ pendingDirs = {}
  /\ readingDirs = {}
  /\ hashlessFiles = <<>>
  /\ hashingFiles = {}
  /\ hashFailedFiles = {}
  /\ hashedFiles = {}
  /\ dirReadScheduled = FALSE
  /\ fileHashScheduled = FALSE
  /\ tickQueue = <<>>
  /\ vdir = [d \in VDirs |-> "none"]
  /\ stale = "none"
  /\ vfile = [f \in VFiles |-> "none"]
  /\ nReprobe = 0
  /\ armed = FALSE
  /\ hung = FALSE
  /\ job = NewJob("init")

\* Set.add and Set.delete on a Set kept in insertion order
SetAdd(q, x) == IF \E i \in 1..Len(q) : q[i] = x THEN q ELSE Append(q, x)

SetDelete(q, x) == SelectSeq(q, LAMBDA y : y # x)

\* reqSchedDirRead scheduling a pass on every request
ReqSchedDirReadAlways(s) ==
  [s EXCEPT !.job.dirReqs = @ + 1, !.dirReadScheduled = TRUE,
            !.tickQueue = Append(@, "dirRead")]

ReqSchedDirRead(s) ==
  LET s1 == [s EXCEPT !.job.dirReqs = @ + 1]
  IN  IF s1.dirReadScheduled THEN s1
      ELSE [s1 EXCEPT !.dirReadScheduled = TRUE, !.tickQueue = Append(@, "dirRead")]

ReqSchedFileHash(s) ==
  LET s1 == [s EXCEPT !.job.hashReqs = @ + 1]
  IN  IF s1.fileHashScheduled THEN s1
      ELSE [s1 EXCEPT !.fileHashScheduled = TRUE, !.tickQueue = Append(@, "fileHash")]

IndexDirectory(s, d) == [s EXCEPT !.uuidMap = @ \cup {d}]

UnindexDirectory(s, d) == [s EXCEPT !.uuidMap = @ \ {d}]

DirEnterInit(s, d) ==
  ReqSchedDirRead([s EXCEPT !.initDirs = SetAdd(@, d), !.armed = TRUE])

DirExitInit(s, d) == ReqSchedDirRead([s EXCEPT !.initDirs = SetDelete(@, d)])

DirEnterPending(s, d) ==
  ReqSchedDirRead([s EXCEPT !.pendingDirs = @ \cup {d}, !.armed = TRUE])

DirExitPending(s, d) == ReqSchedDirRead([s EXCEPT !.pendingDirs = @ \ {d}])

DirEnterReading(s, d) ==
  ReqSchedDirRead([s EXCEPT !.readingDirs = @ \cup {d}, !.armed = TRUE])

DirExitReading(s, d) == ReqSchedDirRead([s EXCEPT !.readingDirs = @ \ {d}])

FileEnterHashless(s, f) == [s EXCEPT !.hashlessFiles = SetAdd(@, f)]

FileExitHashless(s, f) == [s EXCEPT !.hashlessFiles = SetDelete(@, f)]

FileEnterHashing(s, f) == [s EXCEPT !.hashingFiles = @ \cup {f}]

FileExitHashing(s, f) == [s EXCEPT !.hashingFiles = @ \ {f}]

FileEnterHashFailed(s, f) == [s EXCEPT !.hashFailedFiles = @ \cup {f}]

FileEnterHashed(s, f) == [s EXCEPT !.hashedFiles = @ \cup {f}]

DirReadSettled(s) ==
  Len(s.initDirs) = 0 /\ s.pendingDirs = {} /\ s.readingDirs = {}

\* vfs Directory: constructor, read(), end of a read, re-probe request and its
\* timer, destroy
VDirCtor(s, d) == DirEnterInit(IndexDirectory([s EXCEPT !.vdir[d] = "init"], d), d)

VDirRead(s, d) ==
  DirEnterReading(DirExitInit([s EXCEPT !.vdir[d] = "reading"], d), d)

VDirReadEnd(s, d) == DirExitReading([s EXCEPT !.vdir[d] = "idle"], d)

VDirRequest(s, d) == DirEnterPending([s EXCEPT !.vdir[d] = "pending"], d)

VDirTimer(s, d) == DirEnterInit(DirExitPending([s EXCEPT !.vdir[d] = "init"], d), d)

\* vfs Directory.destroy(): leave the bucket of the current state and the id map
VDirDestroy(s, d) ==
  LET st == s.vdir[d]
      s1 == [s EXCEPT !.vdir[d] = "destroyed"]
      s2 == CASE st = "init" -> DirExitInit(s1, d)
              [] st = "pending" -> DirExitPending(s1, d)
              [] st = "reading" -> DirExitReading(s1, d)
              [] OTHER -> s1
  IN  UnindexDirectory(s2, d)

\* the end of a read and destroy() of the Directory object that createRoot
\* replaced: it has the uuid u of the object that replaced it
StaleReadEnd(s, u) == DirExitReading([s EXCEPT !.stale = "idle"], u)

StaleDestroy(s, u) ==
  LET st == s.stale
      s1 == [s EXCEPT !.stale = "destroyed"]
      s2 == CASE st = "init" -> DirExitInit(s1, u)
              [] st = "pending" -> DirExitPending(s1, u)
              [] st = "reading" -> DirExitReading(s1, u)
              [] OTHER -> s1
  IN  UnindexDirectory(s2, u)

\* vfs File: constructor, calcFingerprint(), end of hashing
VFileCtor(s, f) ==
  ReqSchedFileHash(FileEnterHashless([s EXCEPT !.vfile[f] = "hashless"], f))

VFileCalcFingerprint(s, f) ==
  ReqSchedFileHash(
    FileEnterHashing(FileExitHashless([s EXCEPT !.vfile[f] = "hashing"], f), f))

VFileHashEnd(s, f, ok) ==
  LET s1 == FileExitHashing(s, f)
  IN  ReqSchedFileHash(
        IF ok THEN FileEnterHashed([s1 EXCEPT !.vfile[f] = "hashed"], f)
        ELSE FileEnterHashFailed([s1 EXCEPT !.vfile[f] = "hashFailed"], f))

\* the loop condition of scheduleDirRead, off by one
DirReadMayStartLoose(s) ==
  Len(s.initDirs) > 0 /\ Cardinality(s.readingDirs) <= DirReadCeiling

DirReadMayStart(s) ==
  Len(s.initDirs) > 0 /\ Cardinality(s.readingDirs) < DirReadCeiling

FileHashMayStart(s) ==
  Len(s.hashlessFiles) > 0 /\ Cardinality(s.hashingFiles) < FileHashCeiling

RECURSIVE DirReadLoop(_)
\* the while loop of scheduleDirRead; it spins on a uuid without map entry
DirReadLoop(s) ==
  IF ~DirReadMayStart(s) THEN s
  ELSE LET uuid == Head(s.initDirs)
       IN  IF uuid \in s.uuidMap THEN DirReadLoop(VDirRead(s, uuid))
           ELSE [s EXCEPT !.hung = TRUE]

RECURSIVE FileHashLoop(_)
\* the while loop of scheduleFileHash
FileHashLoop(s) ==
  IF ~FileHashMayStart(s) THEN s
  ELSE FileHashLoop(VFileCalcFingerprint(s, Head(s.hashlessFiles)))

ScheduleDirRead(s) ==
  LET s1 == [s EXCEPT !.dirReadScheduled = FALSE]
  IN  IF DirReadSettled(s1)
      THEN [s1 EXCEPT !.job.signals = @ + 1, !.armed = FALSE]
      ELSE DirReadLoop(s1)

ScheduleFileHash(s) == FileHashLoop([s EXCEPT !.fileHashScheduled = FALSE])

RECURSIVE VDirCtorAll(_, _, _)
\* construct the Directory objects from .. to
VDirCtorAll(s, from, to) ==
  IF from > to THEN s ELSE VDirCtorAll(VDirCtor(s, from), from + 1, to)

RECURSIVE VFileCtorAll(_, _, _)
VFileCtorAll(s, from, to) ==
  IF from > to THEN s ELSE VFileCtorAll(VFileCtor(s, from), from + 1, to)

NDirsMade == Cardinality({d \in VDirs : vdir[d] # "none"})

NFilesMade == Cardinality({f \in VFiles : vfile[f] # "none"})

\* a job of the event loop starts only once the nextTick queue has drained
LoopIdle == tickQueue = <<>> /\ ~hung

\* x is the least element of S.  No handler looks at the value of a uuid and the
\* members of one bucket are interchangeable, so the event that concerns one
\* member of a bucket is taken to concern its least member
Least(x, S) == x \in S /\ \A y \in S : x <= y

\* the directories a run may come to hold
DirCap == IF workload \in {"probe", "again"} THEN NVDirs ELSE NVHashDirs

\* createRoot going on after it has reported the error
CreateRootDoneNoReturn(s, u, ok) ==
  [VDirCtor(s, u) EXCEPT !.roots = @ \cup {u},
                         !.job.reported = IF ok THEN "root" ELSE "error"]

\* the mkdirp and forceXstat callbacks of createRoot(u, callback)
CreateRootDone(s, u, ok) ==
  IF ok
  THEN [VDirCtor(s, u) EXCEPT !.roots = @ \cup {u}, !.job.reported = "root"]
  ELSE [s EXCEPT !.job.reported = "error"]

\* the callbacks of createRoot(u, callback) for a drive u that has a root: the
\* new Directory takes the place of the old one in roots and in the id map
CreateRootAgainDone(s, u, ok) ==
  IF ok
  THEN CreateRootDone([s EXCEPT !.stale = s.vdir[u]], u, TRUE)
  ELSE CreateRootDone(s, u, FALSE)

\* the drive of the first root
FirstRoot == 1

\* createRoot for a drive id not seen before
CreateRoot(ok) ==
  /\ LoopIdle
  /\ NDirsMade < DirCap
  /\ workload = "again" => NDirsMade = 0
  /\ FApply(CreateRootDone(FCur("createRoot"), NDirsMade + 1, ok))

\* a read of directory d ends, having found k new subdirectories and j new files
ReadEnd(d, k, j) ==
  /\ LoopIdle
  /\ Least(d, {e \in VDirs : vdir[e] = "reading"})
  /\ NDirsMade + k <= DirCap
  /\ NFilesMade + j <= NVFiles
  /\ workload # "hash" => j = 0
  /\ LET s1 == VDirReadEnd(FCur("readEnd"), d)
         s2 == VDirCtorAll(s1, NDirsMade + 1, NDirsMade + k)
     IN  FApply(VFileCtorAll(s2, NFilesMade + 1, NFilesMade + j))

\* a change notification asks for directory d to be read again
Request(d) ==
  /\ LoopIdle
  /\ Least(d, {e \in VDirs : vdir[e] = "idle"})
  /\ nReprobe < MaxReprobe
  /\ workload # "again"
  /\ FApply([VDirRequest(FCur("request"), d) EXCEPT !.nReprobe = @ + 1])

\* the delay of a pending directory ends
Timer(d) ==
  /\ LoopIdle
  /\ Least(d, {e \in VDirs : vdir[e] = "pending"})
  /\ FApply(VDirTimer(FCur("timer"), d))

\* a directory is found gone and its Directory object is destroyed
DestroyDir(d) ==
  /\ LoopIdle
  /\ workload = "unlink"
  /\ vdir[d] \in {"init", "pending", "reading", "idle"}
  /\ Least(d, {e \in VDirs : vdir[e] = vdir[d]})
  /\ Cardinality({e \in VDirs : vdir[e] = "destroyed"}) < MaxVDestroy
  /\ FApply(VDirDestroy(FCur("destroy"), d))

\* createRoot is called again for the drive of the first root
CreateRootAgain(ok) ==
  /\ LoopIdle
  /\ workload = "again"
  /\ stale = "none"
  /\ vdir[FirstRoot] \in {"init", "pending", "reading", "idle"}
  /\ FApply(CreateRootAgainDone(FCur("createRootAgain"), FirstRoot, ok))

\* the read of the replaced root ends, having found nothing new
ReadEndStale ==
  /\ LoopIdle
  /\ stale = "reading"
  /\ FApply(StaleReadEnd(FCur("readEnd"), FirstRoot))

\* the replaced root is destroyed
DestroyStale ==
  /\ LoopIdle
  /\ stale \in {"init", "pending", "reading", "idle"}
  /\ FApply(StaleDestroy(FCur("destroy"), FirstRoot))

\* the hashing of file f ends
HashEnd(f, ok) ==
  /\ LoopIdle
  /\ Least(f, {g \in VFiles : vfile[g] = "hashing"})
  /\ FApply(VFileHashEnd(FCur("hashEnd"), f, ok))

\* the next callback of the nextTick queue runs
TickDirRead ==
  /\ ~hung
  /\ tickQueue # <<>>
  /\ Head(tickQueue) = "dirRead"
  /\ FApply(ScheduleDirRead([FCur("scheduleDirRead") EXCEPT !.tickQueue = Tail(@)]))

TickFileHash ==
  /\ ~hung
  /\ tickQueue # <<>>
  /\ Head(tickQueue) = "fileHash"
  /\ FApply(ScheduleFileHash([FCur("scheduleFileHash") EXCEPT !.tickQueue = Tail(@)]))

ForestNext ==
  \/ \E ok \in BOOLEAN : CreateRoot(ok)
  \/ \E d \in VDirs, k \in 0..NVDirs, j \in 0..NVFiles : ReadEnd(d, k, j)
  \/ \E d \in VDirs : Request(d)
  \/ \E d \in VDirs : Timer(d)
  \/ \E d \in VDirs : DestroyDir(d)
  \/ \E ok \in BOOLEAN : CreateRootAgain(ok)
  \/ ReadEndStale
  \/ DestroyStale
  \/ \E f \in VFiles, ok \in BOOLEAN : HashEnd(f, ok)
  \/ TickDirRead
  \/ TickFileHash

(***************************************************************************)
(* The multipart Party and its Jobs (part_002).                            *)
(***************************************************************************)
\* number of parts a form may hold
MaxJobs == 3

JobIds == 1..MaxJobs

\* the names a part may carry in its name directive
Names == {"x", "y"}

\* the Party state as one record
PCur ==
  [jstate |-> jstate, jto |-> jto, pred |-> pred, perror |-> perror, pended |-> pended,
   pfinished |-> pfinished, ptick |-> ptick, pemitted |-> pemitted, pthrown |-> "none"]

PApply(s) ==
  /\ jstate' = s.jstate
  /\ jto' = s.jto
  /\ pred' = s.pred
  /\ perror' = s.perror
  /\ pended' = s.pended
  /\ pfinished' = s.pfinished
  /\ ptick' = s.ptick
  /\ pemitted' = s.pemitted
  /\ pthrown' = s.pthrown
  /\ UNCHANGED <<cvars, fvars, bvars, kvars>>

\* Party constructor
PartyInit ==
  /\ jstate = [j \in JobIds |-> "None"]
  /\ jto = [j \in JobIds |-> "null"]
  /\ pred = [j \in JobIds |-> 0]
  /\ perror = "none"
  /\ pended = FALSE
  /\ pfinished = FALSE
  /\ ptick = <<>>
  /\ pemitted = {}
  /\ pthrown = "none"
  /\ plast = <<"init">>

\* State constructor: ctx.state = this, enter(), nextTick(emit StateEntered)
JobNew(s, j, st) == [s EXCEPT !.jstate[j] = st, !.ptick = Append(@, j)]

\* Job.isFinished
IsFinished(s, j) == s.jstate[j] \in {"Failed", "Succeeded"}

\* party.jobs: the Jobs pushed so far
PartyJobs(s) == {j \in JobIds : s.jstate[j] # "None"}

\* Job.destroy: Heading and Parsing fail, every other state inherits the empty destroy
JobDestroy(s, j) ==
  IF s.jstate[j] \in {"Heading", "Parsing"} THEN JobNew(s, j, "Failed") ELSE s

\* Job.onJobFailed(job) and Job.onJobSucceeded(job): only Pending reacts; arg is 0
\* when the caller passes no argument
JobOnFailed(s, j, arg) ==
  IF s.jstate[j] = "Pending" /\ arg = s.pred[j] THEN JobNew(s, j, "Failed") ELSE s

JobOnSucceeded(s, j, arg) ==
  IF s.jstate[j] = "Pending" /\ arg = s.pred[j] THEN JobNew(s, j, "Executing") ELSE s

RECURSIVE EachOnFailed(_, _, _)
RECURSIVE EachOnSucceeded(_, _, _)
RECURSIVE EachDestroy(_, _)

\* this.jobs.forEach(...), from Job i on
EachOnFailed(s, i, arg) ==
  IF i \notin PartyJobs(s) THEN s ELSE EachOnFailed(JobOnFailed(s, i, arg), i + 1, arg)

EachOnSucceeded(s, i, arg) ==
  IF i \notin PartyJobs(s) THEN s ELSE EachOnSucceeded(JobOnSucceeded(s, i, arg), i + 1, arg)

EachDestroy(s, i) ==
  IF i \notin PartyJobs(s) THEN s ELSE EachDestroy(JobDestroy(s, i), i + 1)

\* Party.write(part)
PartyWrite(s) ==
  IF s.pfinished \/ s.perror # "none" THEN s
  ELSE JobNew(s, Cardinality(PartyJobs(s)) + 1, "Heading")

\* the predecessor stamped by the header listener of Heading: the latest earlier
\* Job whose toName is the fromName of this part
Predecessor(s, j, from) ==
  LET c == {i \in PartyJobs(s) : i < j /\ s.jto[i] = from}
  IN  IF c = {} THEN 0 ELSE CHOOSE i \in c : \A k \in c : k <= i

\* the header listener of Heading, for a field part named from|to
HeadingHeader(s, j, from, to) ==
  JobNew([s EXCEPT !.pred[j] = Predecessor(s, j, from), !.jto[j] = to], j, "Parsing")

\* the end listener of Parsing
ParsingEnd(s, j, valid) ==
  IF ~valid THEN JobNew(s, j, "Failed")
  ELSE IF s.pred[j] # 0 /\ ~IsFinished(s, s.pred[j]) THEN JobNew(s, j, "Pending")
  ELSE JobNew(s, j, "Executing")

\* the callback of apis.mkdir in Executing.enter
ExecutingDone(s, j, ok) == JobNew(s, j, IF ok THEN "Succeeded" ELSE "Failed")

\* the StateEntered listener Party.write puts on Job j
StateEntered(s, j) ==
  IF s.pfinished \/ ~IsFinished(s, j) THEN s
  ELSE IF s.pended /\ \A i \in PartyJobs(s) : IsFinished(s, i)
  THEN [s EXCEPT !.perror = IF @ = "none" /\ s.jstate[j] = "Failed" THEN "job" ELSE @,
                 !.pfinished = TRUE,
                 !.pemitted = @ \cup {"finish"}]
  ELSE IF s.perror # "none"
  THEN IF s.jstate[j] = "Failed" THEN EachOnFailed(s, 1, j) ELSE EachOnSucceeded(s, 1, j)
  ELSE IF s.jstate[j] = "Failed"
  THEN [EachDestroy(EachOnFailed(s, 1, 0), 1) EXCEPT !.pthrown = "ReferenceError"]
  ELSE EachOnSucceeded(s, 1, 0)

\* Party.end()
PartyEnd(s) ==
  IF s.pfinished \/ s.pended THEN s
  ELSE IF \A i \in PartyJobs(s) : IsFinished(s, i)
  THEN [s EXCEPT !.pfinished = TRUE, !.pemitted = @ \cup {"finish"}]
  ELSE [s EXCEPT !.pended = TRUE]

\* Party.destroy()
PartyDestroy(s) ==
  IF s.pfinished \/ s.perror # "none" THEN s
  ELSE EachDestroy([s EXCEPT !.perror = "destroyed"], 1)

\* no nextTick callback is waiting
PartyIdle == ptick = <<>>

\* dicer hands the next part to the Party, the parts before it having been read
Write ==
  /\ PartyIdle
  /\ ~pended
  /\ Cardinality(PartyJobs(PCur)) < MaxJobs
  /\ \A j \in JobIds : jstate[j] \notin {"Heading", "Parsing"}
  /\ PApply(PartyWrite(PCur))
  /\ plast' = <<"write">>

\* the header of the part of Job j is read
Header(j, from, to) ==
  /\ PartyIdle
  /\ jstate[j] = "Heading"
  /\ PApply(HeadingHeader(PCur, j, from, to))
  /\ plast' = <<"header", j>>

\* the body of the part of Job j ends
BodyEnd(j, valid) ==
  /\ PartyIdle
  /\ jstate[j] = "Parsing"
  /\ PApply(ParsingEnd(PCur, j, valid))
  /\ plast' = <<"end", j>>

\* the mkdir of Job j completes
MkdirDone(j, ok) ==
  /\ PartyIdle
  /\ jstate[j] = "Executing"
  /\ PApply(ExecutingDone(PCur, j, ok))
  /\ plast' = <<"mkdir", j, ok>>

\* the next nextTick callback runs: a Job emits StateEntered
Notify ==
  /\ ptick # <<>>
  /\ PApply(StateEntered([PCur EXCEPT !.ptick = Tail(@)], Head(ptick)))
  /\ plast' = <<"StateEntered", Head(ptick)>>

\* the form data ends
End ==
  /\ PartyIdle
  /\ ~pended /\ ~pfinished
  /\ PApply(PartyEnd(PCur))
  /\ plast' = <<"partyEnd">>

\* the request is aborted
DestroyParty ==
  /\ PartyIdle
  /\ ~pfinished /\ perror = "none"
  /\ PApply(PartyDestroy(PCur))
  /\ plast' = <<"destroy">>

PartyNext ==
  \/ Write
  \/ \E j \in JobIds, from \in Names, to \in Names : Header(j, from, to)
  \/ \E j \in JobIds, valid \in BOOLEAN : BodyEnd(j, valid)
  \/ \E j \in JobIds, ok \in BOOLEAN : MkdirDone(j, ok)
  \/ Notify
  \/ End
  \/ DestroyParty

(***************************************************************************)
(* The directory probe (fruitmix/file/probe.js).                           *)
(***************************************************************************)
\* entries a probed directory may hold
MaxEntries == 2

\* abort() calls made on one probe
MaxAbort == 2

BCur ==
  [bpos |-> bpos, baborted |-> baborted, bagain |-> bagain, bcount |-> bcount,
   bflight |-> bflight, bcalls |-> bcalls, bthrown |-> "none", bscope |-> bscope]

BApply(s) ==
  /\ bpos' = s.bpos
  /\ baborted' = s.baborted
  /\ bagain' = s.bagain
  /\ bcount' = s.bcount
  /\ bflight' = s.bflight
  /\ bcalls' = s.bcalls
  /\ bthrown' = s.bthrown
  /\ bscope' = s.bscope
  /\ UNCHANGED <<cvars, fvars, pvars, kvars>>

\* probe(dpath, uuid, delay, callback): the timer is set
ProbeStart(scope) ==
  /\ bpos = "timer"
  /\ baborted = FALSE
  /\ bagain = FALSE
  /\ bcount = 0
  /\ bflight = 0
  /\ bcalls = <<>>
  /\ bthrown = "none"
  /\ bscope = scope
  /\ blast = <<"probe">>

\* callback(...)
BCall(s, v) == [s EXCEPT !.bcalls = Append(@, v)]

\* a handler ends, by return or by exception, and no call is left in flight
BEnd(s) == [s EXCEPT !.bpos = "done"]

BThrow(s, e) == [BEnd(s) EXCEPT !.bthrown = e]

\* the timer callback: readXstat(dpath, ...) is issued
TimerDone(s) == [s EXCEPT !.bpos = "xstat1"]

\* the callback of readProps in the timer callback, which issues the second
\* readXstat
PropsDone(s, err) ==
  IF s.baborted THEN BEnd(s)
  ELSE [(IF err THEN BCall(s, "err") ELSE s) EXCEPT !.bpos = "xstat2"]

\* the callback of the first readXstat; r is what the directory is found to be
Xstat1Done(s, r) ==
  IF s.baborted THEN BEnd(s)
  ELSE CASE r = "err" -> BThrow(BCall(s, "err"), "TypeError")
         [] r = "notdir" -> BEnd(BCall(s, "ENOTDIR"))
         [] r = "otheruuid" -> BThrow(s, "ReferenceError")
         [] OTHER -> IF ~s.bscope THEN BThrow(s, "ReferenceError")
                     ELSE IF r = "same" THEN BEnd(BCall(s, "nochange"))
                     ELSE [s EXCEPT !.bpos = "readdir"]

\* the callback of fs.readdir in readProps, the directory holding n entries
ReaddirProbed(s, err, n) ==
  IF s.baborted THEN BEnd(s)
  ELSE IF err THEN PropsDone(s, TRUE)
  ELSE IF n = 0 THEN PropsDone(s, FALSE)
  ELSE [s EXCEPT !.bpos = "entries", !.bcount = n, !.bflight = n]

\* the callback of the readXstat of one entry in readProps
EntryDone(s) ==
  LET s1 == [s EXCEPT !.bflight = @ - 1]
  IN  IF s1.baborted THEN (IF s1.bflight = 0 THEN BEnd(s1) ELSE s1)
      ELSE IF s1.bcount - 1 = 0 THEN PropsDone([s1 EXCEPT !.bcount = 0], FALSE)
      ELSE [s1 EXCEPT !.bcount = @ - 1]

\* the callback of the second readXstat
Xstat2Done(s, r) ==
  IF s.baborted THEN BEnd(s)
  ELSE CASE r = "err" -> BEnd(BCall(s, "err"))
         [] r = "ok" -> BEnd(BCall(s, "result"))
         [] OTHER -> IF s.bscope THEN BEnd(BCall(s, r)) ELSE BThrow(s, "ReferenceError")

\* abort()
ProbeAbort(s) == BCall([s EXCEPT !.baborted = TRUE], "EABORT")

\* the variable timer holds the handle setTimeout returned
TimerHandle == TRUE

\* request()
ProbeRequest(s) == IF TimerHandle THEN s ELSE [s EXCEPT !.bagain = TRUE]

TimerFires ==
  /\ bpos = "timer"
  /\ BApply(TimerDone(BCur))
  /\ blast' = <<"timer">>

FirstXstat(r) ==
  /\ bpos = "xstat1"
  /\ BApply(Xstat1Done(BCur, r))
  /\ blast' = <<"xstat1", r>>

ReaddirEnds(err, n) ==
  /\ bpos = "readdir"
  /\ BApply(ReaddirProbed(BCur, err, n))
  /\ blast' = <<"readdir", err>>

EntryXstat ==
  /\ bpos = "entries"
  /\ bflight > 0
  /\ BApply(EntryDone(BCur))
  /\ blast' = <<"entry">>

SecondXstat(r) ==
  /\ bpos = "xstat2"
  /\ BApply(Xstat2Done(BCur, r))
  /\ blast' = <<"xstat2", r>>

\* the owner of the probe calls abort()
Abort ==
  /\ Cardinality({i \in 1..Len(bcalls) : bcalls[i] = "EABORT"}) < MaxAbort
  /\ BApply(ProbeAbort(BCur))
  /\ blast' = <<"abort">>

\* the owner of the probe calls request()
RequestAgain ==
  /\ bpos # "done"
  /\ blast # <<"request">>
  /\ BApply(ProbeRequest(BCur))
  /\ blast' = <<"request">>

ProbeNext ==
  \/ TimerFires
  \/ \E r \in {"err", "notdir", "otheruuid", "same", "changed"} : FirstXstat(r)
  \/ \E err \in BOOLEAN, n \in 0..MaxEntries : ReaddirEnds(err, n)
  \/ EntryXstat
  \/ \E r \in {"err", "ENOTDIR", "EUUID", "ETIMESTAMP", "ok"} : SecondXstat(r)
  \/ Abort
  \/ RequestAgain

(***************************************************************************)
(* cloneFile (part_000).                                                   *)
(***************************************************************************)
\* modification times a file may have
MaxMtime == 2

\* uuids a file may have
Uuids == {1, 2}

\* the preserve argument: null, or an object with the fields uuid and hash
Preserves ==
  {[set |-> FALSE, uuid |-> FALSE, hash |-> FALSE]} \cup
  {[set |-> TRUE, uuid |-> u, hash |-> h] : u \in BOOLEAN, h \in BOOLEAN}

\* the xstat objects readXstat may report; hash "null" is an absent hash
Xstats ==
  [type : {"file", "directory"}, uuid : Uuids, mtime : 1..MaxMtime, hash : {"null", "h"}]

NoXstat == [type |-> "none", uuid |-> 0, mtime |-> 0, hash |-> "null"]

NoOpt == [uuid |-> 0, hash |-> "null"]

\* the outcome not yet reported, success, and an error with its code property
Waiting == [done |-> FALSE, failed |-> FALSE, code |-> "undefined"]

Success == [done |-> TRUE, failed |-> FALSE, code |-> "undefined"]

Failure(code) == [done |-> TRUE, failed |-> TRUE, code |-> code]

KCur ==
  [kpos |-> kpos, kargs |-> kargs, kxstat |-> kxstat, kmtime |-> kmtime, ktmp |-> ktmp,
   kopt |-> kopt, kresult |-> kresult]

KApply(s) ==
  /\ kpos' = s.kpos
  /\ kargs' = s.kargs
  /\ kxstat' = s.kxstat
  /\ kmtime' = s.kmtime
  /\ ktmp' = s.ktmp
  /\ kopt' = s.kopt
  /\ kresult' = s.kresult
  /\ UNCHANGED <<cvars, fvars, pvars, bvars>>

\* cloneFile(filePath, fileUUID, tmpPath, preserve, callback): readXstat is issued
CloneStart(fileUUID, preserve) ==
  /\ kpos = "xstat"
  /\ kargs = [uuid |-> fileUUID, preserve |-> preserve]
  /\ kxstat = NoXstat
  /\ kmtime = 0
  /\ ktmp = "none"
  /\ kopt = NoOpt
  /\ kresult = Waiting
  /\ klast = <<"cloneFile">>

\* callback(err) and return
KCallback(s, r) == [s EXCEPT !.kresult = r, !.kpos = "done"]

\* rimraf(tmpPath)
Rimraf(s) == [s EXCEPT !.ktmp = IF @ = "present" THEN "removed" ELSE @]

\* the mismatch branch of the lstat callback: err.code === '...' assigns nothing
TimestampMismatch(s) == KCallback(Rimraf(s), Failure("undefined"))

\* the callback of readXstat(filePath)
CloneXstatDone(s, err, x) ==
  IF err # "none" THEN KCallback(s, Failure(err))
  ELSE IF x.type # "file" THEN KCallback([s EXCEPT !.kxstat = x], Failure("ENOTFILE"))
  ELSE IF x.uuid # s.kargs.uuid
  THEN KCallback([s EXCEPT !.kxstat = x], Failure("EUUIDMISMATCH"))
  ELSE [s EXCEPT !.kxstat = x, !.kpos = "clone"]

\* the callback of clone(filePath, tmpPath)
CloneDone(s, err) ==
  IF err # "none" THEN KCallback(s, Failure(err))
  ELSE [s EXCEPT !.ktmp = "present", !.kpos = "lstat"]

\* the callback of fs.lstat(filePath)
CloneLstatDone(s, err, mtime) ==
  IF err # "none" THEN KCallback(Rimraf(s), Failure(err))
  ELSE LET s1 == [s EXCEPT !.kmtime = mtime]
       IN  IF mtime # s.kxstat.mtime THEN TimestampMismatch(s1)
           ELSE IF s.kargs.preserve.set
           THEN [s1 EXCEPT !.kpos = "force",
                           !.kopt = [uuid |-> IF s.kargs.preserve.uuid
                                              THEN s.kxstat.uuid ELSE 0,
                                     hash |-> IF s.kargs.preserve.hash
                                              THEN s.kxstat.hash ELSE "null"]]
           ELSE KCallback(s1, Success)

\* the callback of forceXstat(tmpPath, opt)
CloneForceDone(s, err) ==
  IF err # "none" THEN KCallback(Rimraf(s), Failure(err)) ELSE KCallback(s, Success)

SourceXstat(err, x) ==
  /\ kpos = "xstat"
  /\ KApply(CloneXstatDone(KCur, err, x))
  /\ klast' = <<"readXstat", err>>

Cloned(err) ==
  /\ kpos = "clone"
  /\ KApply(CloneDone(KCur, err))
  /\ klast' = <<"clone", err>>

Lstat(err, mtime) ==
  /\ kpos = "lstat"
  /\ KApply(CloneLstatDone(KCur, err, mtime))
  /\ klast' = <<"lstat", err>>

Forced(err) ==
  /\ kpos = "force"
  /\ KApply(CloneForceDone(KCur, err))
  /\ klast' = <<"forceXstat", err>>

CloneNext ==
  \/ \E err \in {"none", "ENOENT"}, x \in Xstats : SourceXstat(err, x)
  \/ \E err \in {"none", "EIO"} : Cloned(err)
  \/ \E err \in {"none", "ENOENT"}, mtime \in 1..MaxMtime : Lstat(err, mtime)
  \/ \E err \in {"none", "EIO"} : Forced(err)

\* the collaborators of the copy: the scheduler of pending nodes and the
\* completions of mkdirc, readdir and cpFile
Collaborators ==
  \/ \E d \in Dirs : SchedDir(d) /\ UNCHANGED <<fvars, xvars>>
  \/ \E f \in Files : SchedFile(f) /\ UNCHANGED <<fvars, xvars>>
  \/ \E d \in Dirs, out \in {"ok", "EEXIST", "EIO"}, uuid \in DstIds :
        MkdircDone(d, out, uuid) /\ UNCHANGED <<fvars, xvars>>
  \/ \E d \in Dirs, out \in {"ok", "EIO"} : ReaddirDone(d, out) /\ UNCHANGED <<fvars, xvars>>
  \/ \E f \in Files, out \in {"ok", "ECONFLICT", "EIO"} : CpFileDone(f, out) /\ UNCHANGED <<fvars, xvars>>

CopyStep ==
  \/ Collaborators
  \/ \E d \in Dirs : Retry(d) /\ UNCHANGED <<fvars, xvars>>

\* a copy that may be cancelled at any moment
CopyNext ==
  \/ CopyStep
  \/ Destroy /\ UNCHANGED <<fvars, xvars>>

\* a copy into which conflict decisions are injected
PolicyNext ==
  \/ CopyStep
  \/ \E d \in Dirs, type \in {"same", "diff"}, p \in Policies :
        SetPolicy(d, type, p) /\ UNCHANGED <<fvars, xvars>>
  \/ \E f \in Files, p \in Policies : SetFilePolicy(f, p) /\ UNCHANGED <<fvars, xvars>>
  \/ \E f \in Files : Resolve(f) /\ UNCHANGED <<fvars, xvars>>

\* a run either probes a large tree of directories, or hashes the files of a small
\* one, or probes a small one whose directories may be found gone, or probes
\* the large tree of a single drive whose root is created twice and that sees no
\* change notification: the two schedulers share nothing but the nextTick queue
Workloads == {"probe", "hash", "unlink", "again"}

\* the probe and the cloneFile call of a run that is not about them
Others == ProbeStart(TRUE) /\ CloneStart(1, [set |-> FALSE, uuid |-> FALSE, hash |-> FALSE])

Init == CopyInit /\ ForestInit /\ workload = "probe" /\ PartyInit /\ Others

InitForest == CopyInit /\ ForestInit /\ workload \in Workloads /\ PartyInit /\ Others

\* a probe in a scope that binds the free names of probe.js, or does not
InitProbe ==
  /\ CopyInit /\ ForestInit /\ workload = "probe" /\ PartyInit
  /\ \E scope \in BOOLEAN : ProbeStart(scope)
  /\ CloneStart(1, [set |-> FALSE, uuid |-> FALSE, hash |-> FALSE])

\* cloneFile called with any expected uuid and any preserve argument
InitClone ==
  /\ CopyInit /\ ForestInit /\ workload = "probe" /\ PartyInit /\ ProbeStart(TRUE)
  /\ \E u \in Uuids, pr \in Preserves : CloneStart(u, pr)

Spec == Init /\ [][CopyNext]_vars

SpecPolicy == Init /\ [][PolicyNext]_vars

SpecForest == InitForest /\ [][ForestNext]_vars

SpecParty == Init /\ [][PartyNext]_vars

SpecProbe == InitProbe /\ [][ProbeNext]_vars

SpecClone == InitClone /\ [][CloneNext]_vars

\* a copy whose collaborators always complete the call they were handed
SpecLive == Init /\ [][CopyStep]_vars /\ WF_vars(Collaborators)

(***************************************************************************)
(* Properties of the copy state machines.                                  *)
(***************************************************************************)
\* the nodes Directory d has constructed so far
Spawned(d) ==
  {f \in Files : f.dir = d /\ flive[f] # "None"} \cup
  {DirNode(c) : c \in {x \in Dirs : HasParent(x) /\ ParentOf(x) = d /\ dstate[x] # "None"}}

\* the state a node entered most recently
NodeState(n) == IF IsFile(n) THEN flive[n] ELSE dstate[n.dir]

Terminal(n) == NodeState(n) \in {"Finished", "Failed"}

Range(q) == {q[i] : i \in 1..Len(q)}

\* C1: a Directory in Finished has no children and a destination id, and every
\* child it spawned is terminal and has been destroyed
C1_FinishedDirectory ==
  \A d \in Dirs :
    dstate[d] = "Finished" =>
      /\ children[d] = <<>>
      /\ dstUUID[d] # 0
      /\ \A n \in Spawned(d) : Terminal(n) /\ n \in destroyed

C1_Witness ==
  /\ dstate["a"] = "Finished"
  /\ flive[FileNode("a", 1)] = "Finished"
  /\ dstate[RootDir] = "Read"

\* C2: a Directory in Read has at most one non-terminal child, and at most one
\* of the children it constructed has not yet emitted 'error' or 'finish'
C2_OneChildAtATime ==
  \A d \in Dirs :
    dstate[d] = "Read" =>
      /\ Cardinality({n \in Spawned(d) : ~Terminal(n)}) <= 1
      /\ Cardinality({n \in Spawned(d) : emitted[n] = <<>>}) <= 1

C2_Witness ==
  /\ dstate[RootDir] = "Read"
  /\ Len(children[RootDir]) = 3
  /\ flive[FileNode(RootDir, 1)] = "Failed"
  /\ dstate["a"] = "Failed"
  /\ dstate["b"] = "Making"

\* the nodes reachable from the root through the children lists
LiveSubtree ==
  {DirNode(RootDir)} \cup Range(children[RootDir]) \cup
  UNION {Range(children[c.dir]) : c \in {x \in Range(children[RootDir]) : IsDir(x)}}

InAnyBucket(n) ==
  IF IsFile(n) THEN \E b \in FileStates : n \in fileB[b]
  ELSE \E b \in DirStates : n.dir \in dirB[b]

Slot(type) == IF type = "same" THEN 1 ELSE 2

\* C3: setPolicy(kind, p) on a Directory in Conflict moves it to Making when p
\* differs from the slot's current value and leaves it in Conflict when p is
\* identical
C3_SetPolicyLaw ==
  [][\A d \in Dirs :
       (last'[1] = "setPolicy" /\ last'[2] = d /\ dstate[d] = "Conflict") =>
         IF last'[4] # policy[d][Slot(last'[3])]
         THEN dstate'[d] = "Making"
         ELSE dstate'[d] = "Conflict" /\ d \notin dirB'["Making"]]_cvars

\* C4: a Directory whose creation reported EEXIST is in Conflict, and retry()
\* with the resolved policy pair unchanged since then leaves it in Conflict
C4_RetryUnchangedPolicy ==
  [][\A d \in Dirs :
       /\ (last'[1] = "mkdirc" /\ last'[2] = d /\ last'[3] = "EEXIST") =>
            dstate'[d] = "Conflict"
       /\ (last'[1] = "retry" /\ last'[2] = d /\ dstate[d] = "Conflict"
            /\ conflict[d].policy = DirGetPolicy(Cur, d)) =>
            dstate'[d] = "Conflict"]_cvars

\* C5: after destroy() no destroyed node is left in a lifecycle bucket, and a
\* second destroy() changes no bucket
C5_DestroyUnregisters ==
  [][last'[1] = "destroy" =>
       /\ \A n \in LiveSubtree : ~InAnyBucket(n)'
       /\ (last[1] = "destroy" => (dirB' = dirB /\ fileB' = fileB))]_cvars

\* C6: destroy() puts every non-terminal node of the subtree into Failed with
\* a 'destroyed' error
C6_DestroyFails ==
  [][last'[1] = "destroy" =>
       \A n \in LiveSubtree :
         ~Terminal(n) =>
           /\ Terminal(n)'
           /\ NodeState(n)' = "Failed"
           /\ emitted'[n] = Append(emitted[n], <<"error", "destroyed">>)]_cvars

\* C10: the completion of a Working File's copy moves it to Finished on success,
\* to Conflict on a conflict-tagged error and to Failed on any other error; a
\* File entering Failed emits the error and leaves the working bucket; no
\* existing sibling changes state
C10_WorkingCompletion ==
  [][\A f \in Files :
       (last'[1] = "cpFile" /\ last'[2] = f) =>
         /\ flive[f] = "Working"
         /\ flive'[f] = CASE last'[3] = "ok" -> "Finished"
                          [] last'[3] = "ECONFLICT" -> "Conflict"
                          [] OTHER -> "Failed"
         /\ flive'[f] = "Failed" =>
              /\ emitted'[f] = Append(emitted[f], <<"error", last'[3]>>)
              /\ f \notin fileB'["Working"]
              /\ f \in fileB'["Failed"]
         /\ flive'[f] = "Conflict" => (emitted'[f] = emitted[f] /\ f \in fileB'["Conflict"])
         /\ flive'[f] = "Finished" => emitted'[f] = Append(emitted[f], <<"finish", "none">>)
         /\ \A n \in Spawned(f.dir) \ {f} : NodeState(n)' = NodeState(n)]_cvars

C10_Witness ==
  /\ last[1] = "cpFile"
  /\ last[2] = FileNode(RootDir, 2)
  /\ last[3] = "EIO"
  /\ flive[FileNode(RootDir, 2)] = "Failed"
  /\ flive[FileNode(RootDir, 1)] = "Failed"
  /\ FileNode(RootDir, 1) \in Range(children[RootDir])
  /\ FileNode(RootDir, 2) \notin fileB["Working"]

(***************************************************************************)
(* Properties of the Forest schedulers.                                    *)
(***************************************************************************)
\* the callbacks named cb waiting in the nextTick queue
Queued(cb) == Cardinality({i \in 1..Len(tickQueue) : tickQueue[i] = cb})

\* the most recent job was a scheduling pass
PassJob == job.op \in {"scheduleDirRead", "scheduleFileHash"}

C8_Debounce ==
  /\ Queued("dirRead") = (IF dirReadScheduled THEN 1 ELSE 0)
  /\ Queued("fileHash") = (IF fileHashScheduled THEN 1 ELSE 0)
  /\ job.dirReqs > 0 => Queued("dirRead") = 1
  /\ job.hashReqs > 0 => Queued("fileHash") = 1
  /\ (~PassJob /\ job.dirReqs = 0) => Queued("dirRead") = 0
  /\ (~PassJob /\ job.hashReqs = 0) => Queued("fileHash") = 0

\* one job changed directory buckets twice and asked for file hashing twice
C8_Witness ==
  /\ job.dirReqs >= 2
  /\ job.hashReqs >= 2
  /\ Queued("dirRead") = 1
  /\ Queued("fileHash") = 1

\* C9: the settle signal is emitted once for each settle point: by a pass that
\* finds the init, pending and reading buckets empty together, and not again until
\* a directory has entered a bucket and the three have emptied again.
C9_SettleOnce ==
  [][/\ job'.signals <= 1
     /\ job'.signals = 1 =>
          /\ armed /\ ~armed'
          /\ initDirs' = <<>> /\ pendingDirs' = {} /\ readingDirs' = {}
     /\ (tickQueue' = <<>> /\ initDirs' = <<>> /\ pendingDirs' = {}
           /\ readingDirs' = {}) => ~armed']_vars

(***************************************************************************)
(* Progress of the copy.                                                   *)
(***************************************************************************)
\* the nodes that have a parent Directory
ChildNodes == {n \in Nodes : NodeHasParent(n)}

\* node n is held up: in Conflict or Failed
Troubled(n) == NodeState(n) \in {"Conflict", "Failed"}

\* entry n of its parent's listing has not been constructed yet
InQueue(n) == n \in Range(fstats[NodeParent(n)]) \cup Range(dstats[NodeParent(n)])

\* C11: a child reaching Failed is destroyed and removed by its parent, and the
\* parent then reaches Finished unless some other node conflicts or fails.
C11_FailedChildDoesNotStop ==
  /\ [][\A n \in ChildNodes :
          (NodeState(n) # "Failed" /\ NodeState(n)' = "Failed") =>
             (n \in destroyed' /\ n \notin Range(children'[NodeParent(n)]))]_vars
  /\ \A n \in ChildNodes :
       [](NodeState(n) = "Failed" =>
            <>(\/ dstate[NodeParent(n)] = "Finished"
               \/ \E m \in Nodes \ {n} : Troubled(m)))

\* C12: while a child is parked in Conflict, the entries still queued in its
\* parent get constructed and reach a terminal or conflict state, or else the
\* conflict is resolved.
C12_ConflictDoesNotBlock ==
  \A c \in ChildNodes : \A e \in ChildNodes \ {c} :
    NodeParent(e) = NodeParent(c) =>
      [](NodeState(c) = "Conflict" /\ InQueue(e) =>
           <>(\/ NodeState(e) \in {"Finished", "Failed", "Conflict"}
              \/ NodeState(c) # "Conflict"))

(***************************************************************************)
(* Registration of Files in the ctx buckets.                               *)
(***************************************************************************)
\* File f is registered in the bucket of the state it entered last, and in no other
InOwnBucketOnly(f) == \A b \in FileStates : f \in fileB[b] <=> b = flive[f]

\* C13: every live File is registered in exactly the bucket of the state it
\* entered most recently, and the exit of every File state unregisters from
\* the bucket its entry registered in.
C13_FileBuckets ==
  /\ \A f \in Files : (flive[f] # "None" /\ f \notin destroyed) => InOwnBucketOnly(f)
  /\ \A st \in FileStates : FileExitBucket(st) = st

LeafDirs == {d \in Dirs : HasParent(d) /\ Len(SubdirsOf(d)) = 0}

FilesOf(d) == {f \in Files : f.dir = d}

\* the order of the states of a Directory, and of a File, that meets no trouble
DirOrder ==
  {<<"None", "Pending">>, <<"Pending", "Making">>, <<"Making", "Reading">>,
   <<"Reading", "Read">>, <<"Read", "Finished">>}

FileOrder == {<<"None", "Pending">>, <<"Pending", "Working">>, <<"Working", "Finished">>}

\* Directory d has finished with every file of its listing copied, one 'finish' each
RunComplete(d) ==
  /\ dstate[d] = "Finished"
  /\ dstUUID[d] # 0
  /\ emitted[DirNode(d)] = <<(<<"finish", "none">>)>>
  /\ \A f \in FilesOf(d) : flive[f] = "Finished" /\ emitted[f] = <<(<<"finish", "none">>)>>

C16_ResolveLaw ==
  [][\A f \in Files :
       (last'[1] = "resolve" /\ last'[2] = f /\ flive[f] = "Conflict") =>
          IF FileGetPolicy(Cur, f) # fcall[f]
          THEN flive'[f] = "Working" /\ fcall'[f] = FileGetPolicy(Cur, f)
          ELSE flive'[f] = "Conflict" /\ f \notin fileB'["Working"]]_vars

(***************************************************************************)
(* Notifications and destination ids.                                      *)
(***************************************************************************)
\* C17: whatever conflicts, retries and cancellations it meets, a node emits at
\* most one notification, 'error' or 'finish', and only for the terminal state
\* it is in.
C17_OneNotification ==
  \A n \in Nodes :
    /\ Len(emitted[n]) <= 1
    /\ Len(emitted[n]) = 1 =>
         NodeState(n) = (IF emitted[n][1][1] = "error" THEN "Failed" ELSE "Finished")

\* a copy completed after the tree was cancelled, and its File notified once
C17_Witness ==
  /\ DirNode(RootDir) \in destroyed
  /\ FileNode(RootDir, 1) \in destroyed
  /\ last[1] = "cpFile"
  /\ last[2] = FileNode(RootDir, 1)
  /\ Len(emitted[FileNode(RootDir, 1)]) = 1

\* C18: a destination id, once assigned, is changed by no transition, retry() or
\* setPolicy().
C18_DstIdImmutable ==
  [][\A d \in Dirs : dstUUID[d] # 0 => dstUUID'[d] = dstUUID[d]]_vars

\* retry() on the root reaches a Directory that has its destination id
C18_Witness ==
  /\ last[1] = "retry"
  /\ last[2] = RootDir
  /\ dstate["a"] = "Reading"
  /\ dstUUID["a"] = 2
  /\ nSetPolicy > 0

(***************************************************************************)
(* Snapshots.                                                              *)
(***************************************************************************)
\* C19: the state name in the snapshot of a node is the state the node entered
\* most recently, for Directories and for Files.
C19_ViewState ==
  /\ \A d \in Dirs : dstate[d] # "None" => DirView(Cur, d).state = dstate[d]
  /\ \A f \in Files : flive[f] # "None" => FileView(Cur, f).state = flive[f]

(***************************************************************************)
(* The maps of Forest.                                                     *)
(***************************************************************************)
\* the vfs Directories constructed and not destroyed
LiveVDirs == {d \in VDirs : vdir[d] \notin {"none", "destroyed"}}

\* C20: the global id map holds exactly the Directories constructed and not
\* destroyed, and the roots map holds no drive whose root Directory has been
\* destroyed.
C20_MapsFollowLifetime ==
  /\ uuidMap = LiveVDirs
  /\ roots \subseteq LiveVDirs

(***************************************************************************)
(* The completion of the directory-create call.                            *)
(***************************************************************************)
\* C21: when the directory-create call of a Making Directory completes, an
\* already-exists error moves the Directory to Conflict recording the error and
\* the policy pair handed to the call, any other error moves it to Failed, and
\* success records the assigned destination id and moves it to Reading.
C21_MakingCompletion ==
  [][\A d \in Dirs :
       (last'[1] = "mkdirc" /\ last'[2] = d) =>
         /\ dstate[d] = "Making"
         /\ CASE last'[3] = "EEXIST" ->
                   /\ dstate'[d] = "Conflict"
                   /\ conflict'[d] = [err |-> "EEXIST", policy |-> callPolicy[d]]
                   /\ callPolicy[d] = DirGetPolicy(Cur, d)
                   /\ dstUUID'[d] = dstUUID[d]
              [] last'[3] = "ok" ->
                   /\ dstate'[d] = "Reading"
                   /\ dstUUID'[d] = last'[4]
                   /\ conflict'[d] = NoConflict
              [] OTHER ->
                   /\ dstate'[d] = "Failed"
                   /\ dstUUID'[d] = dstUUID[d]
                   /\ conflict'[d] = NoConflict]_vars

\* a second already-exists error, after a decision was stored in the Directory
C21_Witness ==
  /\ last[1] = "mkdirc"
  /\ last[2] = "a"
  /\ last[3] = "EEXIST"
  /\ dstate["a"] = "Conflict"
  /\ conflict["a"].policy = <<"skip", "null">>

(***************************************************************************)
(* retry() over a subtree.                                                 *)
(***************************************************************************)
RECURSIVE LiveUnder(_, _)

\* node n is reached by the children lists from Directory d
LiveUnder(n, d) ==
  \/ n = DirNode(d)
  \/ /\ NodeHasParent(n)
     /\ n \in Range(children[NodeParent(n)])
     /\ LiveUnder(DirNode(NodeParent(n)), d)

\* C22: one retry() on a Directory takes every node of its subtree that is in
\* Conflict to Making (a Directory) or Working (a File), and leaves every node of
\* the subtree that is in another state in that state.
C22_RetryResumesSubtree ==
  [][\A d \in Dirs :
       (last'[1] = "retry" /\ last'[2] = d) =>
         \A n \in {m \in Nodes : LiveUnder(m, d)} :
           IF NodeState(n) = "Conflict"
           THEN NodeState(n)' = (IF IsFile(n) THEN "Working" ELSE "Making")
           ELSE NodeState(n)' = NodeState(n)]_vars

(***************************************************************************)
(* Files before subdirectories.                                            *)
(***************************************************************************)
\* C23: a Directory child is constructed only when the file queue of its parent
\* is empty and every File of the parent has been constructed and is terminal;
\* the Files are constructed in listing order.
C23_FilesBeforeDirectories ==
  [][/\ \A c \in Dirs :
          (HasParent(c) /\ dstate[c] = "None" /\ dstate'[c] # "None") =>
            /\ fstats[ParentOf(c)] = <<>>
            /\ fstats'[ParentOf(c)] = <<>>
            /\ \A f \in FilesOf(ParentOf(c)) : flive'[f] \in {"Finished", "Failed"}
     /\ \A f \in Files :
          (flive[f] = "None" /\ flive'[f] # "None") =>
            /\ \A g \in FilesOf(f.dir) : g.idx < f.idx => flive[g] # "None"
            /\ Range(fstats'[f.dir]) = {g \in FilesOf(f.dir) : g.idx > f.idx}]_vars

\* the first subdirectory of the root is constructed after one File of the root
\* finished and the other failed
C23_Witness ==
  /\ dstate["a"] # "None"
  /\ flive[FileNode(RootDir, 1)] = "Finished"
  /\ flive[FileNode(RootDir, 2)] = "Failed"
  /\ last[1] = "cpFile"

(***************************************************************************)
(* Termination of the scheduling passes.                                   *)
(***************************************************************************)
\* C24: every run of scheduleDirRead and of scheduleFileHash terminates: no pass
\* is left spinning in its loop, also when the uuid at the head of the init
\* bucket has no entry in the global id map.
C24_PassesTerminate == ~hung

(***************************************************************************)
(* Cancellation.                                                           *)
(***************************************************************************)
\* the collaborator call of node n completes in this step
Completes(n) ==
  IF IsFile(n)
  THEN last'[1] = "cpFile" /\ last'[2] = n
  ELSE last'[1] \in {"mkdirc", "readdir"} /\ last'[2] = n.dir

\* C25: the completion of a collaborator call of a destroyed File or Directory
\* changes the state of no node, registers no node in a bucket, emits nothing
\* and constructs no child.
C25_NoEffectAfterDestroy ==
  [][\A n \in Nodes :
       (n \in destroyed /\ Completes(n)) =>
         /\ dstate' = dstate /\ flive' = flive
         /\ dirB' = dirB /\ fileB' = fileB
         /\ emitted' = emitted
         /\ children' = children]_vars

(***************************************************************************)
(* Pending Jobs of the Party.                                              *)
(***************************************************************************)
\* the StateEntered listener of finished Job q runs in this step
Notified(q) ==
  /\ plast' = <<"StateEntered", q>>
  /\ jstate[q] \in {"Failed", "Succeeded"}
  /\ ~pfinished

\* C26: a Pending Job moves to Executing when its predecessor is notified to have
\* succeeded and to Failed when its predecessor is notified to have failed,
\* before and after the Party has an error; the notifications of other Jobs and
\* destroy() leave it in Pending.
C26_PendingFollowsPredecessor ==
  [][\A p \in JobIds :
       jstate[p] = "Pending" =>
         /\ Notified(pred[p]) =>
              jstate'[p] = (IF jstate[pred[p]] = "Succeeded" THEN "Executing" ELSE "Failed")
         /\ (\E q \in JobIds \ {pred[p]} : Notified(q)) => jstate'[p] = "Pending"
         /\ plast' = <<"destroy">> => jstate'[p] = "Pending"]_vars

(***************************************************************************)
(* The callback of a probe.                                                *)
(***************************************************************************)
\* C27: a probe invokes its callback once: never twice, once when it is over,
\* and with nothing after the abort error.
C27_CallbackOnce ==
  /\ Len(bcalls) <= 1
  /\ bpos = "done" => Len(bcalls) = 1
  /\ \A i \in 1..Len(bcalls) : bcalls[i] = "EABORT" => i = Len(bcalls)

(***************************************************************************)
(* The errors of cloneFile.                                                *)
(***************************************************************************)
\* the three conditions of the source cloneFile tests for
NotAFile == kxstat # NoXstat /\ kxstat.type # "file"

OtherUuid == kxstat # NoXstat /\ kxstat.uuid # kargs.uuid

Drifted == kmtime # 0 /\ kmtime # kxstat.mtime

\* C28: cloneFile fails with a code of its own for a source that is not a file,
\* for a source with another uuid and for a modification time that changed
\* while cloning; a failure after the clone was made leaves no temporary file;
\* success is reported only when none of the three holds.
C28_CloneFileErrors ==
  kresult.done =>
    /\ NotAFile => (kresult.failed /\ kresult.code = "ENOTFILE")
    /\ (OtherUuid /\ ~NotAFile) => (kresult.failed /\ kresult.code = "EUUIDMISMATCH")
    /\ Drifted =>
         (kresult.failed /\ kresult.code \notin {"undefined", "ENOTFILE", "EUUIDMISMATCH"})
    /\ (kresult.failed /\ ktmp # "none") => ktmp = "removed"
    /\ ~kresult.failed => (~NotAFile /\ ~OtherUuid /\ ~Drifted /\ ktmp = "present")

====
